---------------------------- MODULE Spec2Model ----------------------------
(***************************************************************************)
(* A model of the two programs of the repository:                          *)
(*                                                                         *)
(*   binary-tree/binary-tree.cpp            tree<T>: insert/contains/erase *)
(*   stable-selection-sort/...-sort.cpp     Deck: a singly linked list of  *)
(*                                          cards, shuffle and a stable    *)
(*                                          selection sort                 *)
(*                                                                         *)
(* Memory is modelled explicitly: a node is an address, its fields are     *)
(* functions from addresses, `new` hands out a free address and `delete`   *)
(* returns the address to the free pool.                                   *)
(***************************************************************************)
EXTENDS Integers, Sequences, FiniteSets

\* nullptr
Null == 0

(***************************************************************************)
(*                        binary-tree/binary-tree.cpp                      *)
(***************************************************************************)

\* The tree holds values 1..MaxVal (the element type of the test is int).
MaxVal == 4

Values == 1..MaxVal

\* Addresses `new node` can return.  A tree of distinct values holds at most
\* MaxVal nodes, and emplace holds one more while it tries a duplicate.
TreeAddrs == 1..(MaxVal + 1)

VARIABLES
    value,        \* tree_node::value
    parent,       \* tree_node::parent
    left,         \* tree_node::left
    right,        \* tree_node::right
    root,         \* tree::root
    tree_size,    \* tree::tree_size
    allocated,    \* the nodes that were new'ed and not yet deleted
    mem_fault,    \* set once a delete hits a freed or a still linked node
    ret,          \* what the last insert returned
    last,         \* history: the last call, its argument and the case it took
    present,      \* history: values inserted and not erased since
    only_inserts  \* history: erase has not been called yet

treeVars == <<value, parent, left, right, root, tree_size, allocated, mem_fault>>
treeHist == <<ret, last, present, only_inserts>>

\* The tree object as one record, so that the member functions can be
\* written as functions from tree to tree.
Tree ==
    [value |-> value, parent |-> parent, left |-> left, right |-> right,
     root |-> root, tree_size |-> tree_size, allocated |-> allocated,
     mem_fault |-> mem_fault]

\* tree::tree(): no root, size 0; nothing is allocated.
EmptyTree ==
    [value |-> [n \in TreeAddrs |-> 0],
     parent |-> [n \in TreeAddrs |-> Null],
     left |-> [n \in TreeAddrs |-> Null],
     right |-> [n \in TreeAddrs |-> Null],
     root |-> Null, tree_size |-> 0, allocated |-> {}, mem_fault |-> FALSE]

\* The nodes reached from `from` over left/right links.
RECURSIVE ReachFrom(_, _, _)
ReachFrom(t, frontier, seen) ==
    IF frontier = {} THEN seen
    ELSE LET kids == {t.left[n] : n \in frontier} \cup {t.right[n] : n \in frontier}
             fresh == (kids \ {Null}) \ (seen \cup frontier)
         IN  ReachFrom(t, fresh, seen \cup frontier)

Reachable(t) == ReachFrom(t, {t.root} \ {Null}, {})

Subtree(t, n) == ReachFrom(t, {n} \ {Null}, {})

\* The address `new node` returns: the lowest free one, none when memory is
\* exhausted (the allocator is a deterministic function of the heap; no
\* property of the tree depends on which free address it hands out).
free_address(t) ==
    LET free == TreeAddrs \ t.allocated
    IN  IF free = {} THEN {}
        ELSE {CHOOSE m \in free : \A k \in free : m <= k}

\* new node(value): tree_node's constructor leaves the three links null.
new_node(t, n, v) ==
    [t EXCEPT !.allocated = @ \cup {n},
              !.value[n] = v,
              !.parent[n] = Null,
              !.left[n] = Null,
              !.right[n] = Null]

\* delete node.  Deleting what is not allocated (a double free) or what the
\* root still reaches is recorded in mem_fault.
delete_node(t, n) ==
    [t EXCEPT !.allocated = @ \ {n},
              !.mem_fault = @ \/ n \notin t.allocated \/ n \in Reachable(t),
              !.value[n] = 0,
              !.parent[n] = Null,
              !.left[n] = Null,
              !.right[n] = Null]

attach_on_left(t, this, new_left) ==
    LET t1 == [t EXCEPT !.left[this] = new_left]
    IN  IF new_left # Null THEN [t1 EXCEPT !.parent[new_left] = this] ELSE t1

attach_on_right(t, this, new_right) ==
    LET t1 == [t EXCEPT !.right[this] = new_right]
    IN  IF new_right # Null THEN [t1 EXCEPT !.parent[new_right] = this] ELSE t1

\* Mutant: only a left child is ever replaced.
replace_child_left_only(t, this, old_child, new_child) ==
    IF t.left[this] = old_child
    THEN [attach_on_left(t, this, new_child) EXCEPT !.parent[old_child] = Null]
    ELSE t

replace_child(t, this, old_child, new_child) ==
    IF t.left[this] = old_child
    THEN [attach_on_left(t, this, new_child) EXCEPT !.parent[old_child] = Null]
    ELSE IF t.right[this] = old_child
    THEN [attach_on_right(t, this, new_child) EXCEPT !.parent[old_child] = Null]
    ELSE t

size(t) == t.tree_size

empty(t) == size(t) = 0

\* try_insert returns the tree and the flag `success`.
RECURSIVE try_insert(_, _, _)
\* Mutant: a larger value is hung on the left.
try_insert_wrong_side(t, subtree, new) ==
    IF t.value[new] < t.value[subtree]
    THEN IF t.left[subtree] = Null
         THEN [tree |-> attach_on_left(t, subtree, new), success |-> TRUE]
         ELSE try_insert(t, t.left[subtree], new)
    ELSE IF t.value[subtree] < t.value[new]
    THEN IF t.right[subtree] = Null
         THEN [tree |-> attach_on_left(t, subtree, new), success |-> TRUE]
         ELSE try_insert(t, t.right[subtree], new)
    ELSE [tree |-> t, success |-> FALSE]

\* Mutant: the second comparison is left out, an equal value goes right.
try_insert_accepts_equal(t, subtree, new) ==
    IF t.value[new] < t.value[subtree]
    THEN IF t.left[subtree] = Null
         THEN [tree |-> attach_on_left(t, subtree, new), success |-> TRUE]
         ELSE try_insert(t, t.left[subtree], new)
    ELSE IF t.right[subtree] = Null
         THEN [tree |-> attach_on_right(t, subtree, new), success |-> TRUE]
         ELSE try_insert(t, t.right[subtree], new)

try_insert(t, subtree, new) ==
    IF t.value[new] < t.value[subtree]
    THEN IF t.left[subtree] = Null
         THEN [tree |-> attach_on_left(t, subtree, new), success |-> TRUE]
         ELSE try_insert(t, t.left[subtree], new)
    ELSE IF t.value[subtree] < t.value[new]
    THEN IF t.right[subtree] = Null
         THEN [tree |-> attach_on_right(t, subtree, new), success |-> TRUE]
         ELSE try_insert(t, t.right[subtree], new)
    ELSE [tree |-> t, success |-> FALSE]

\* Mutant: the node of a rejected value is not deleted.
emplace_keeps_rejected_node(t, v, n) ==
    LET t0 == new_node(t, n, v)
    IN  IF empty(t0)
        THEN [tree |-> [t0 EXCEPT !.root = n, !.tree_size = @ + 1], ret |-> TRUE]
        ELSE LET r == try_insert(t0, t0.root, n)
             IN  IF ~r.success
                 THEN [tree |-> r.tree, ret |-> FALSE]
                 ELSE [tree |-> [r.tree EXCEPT !.tree_size = @ + 1], ret |-> TRUE]

\* emplace(value), where `new` returned the address n.
emplace(t, v, n) ==
    LET t0 == new_node(t, n, v)
    IN  IF empty(t0)
        THEN [tree |-> [t0 EXCEPT !.root = n, !.tree_size = @ + 1], ret |-> TRUE]
        ELSE LET r == try_insert(t0, t0.root, n)
             IN  IF ~r.success
                 THEN [tree |-> delete_node(r.tree, n), ret |-> FALSE]
                 ELSE [tree |-> [r.tree EXCEPT !.tree_size = @ + 1], ret |-> TRUE]

insert(t, v, n) == emplace(t, v, n)

RECURSIVE find_at(_, _, _)
find_at(t, subtree, v) ==
    IF subtree = Null THEN Null
    ELSE IF v < t.value[subtree] THEN find_at(t, t.left[subtree], v)
    ELSE IF t.value[subtree] < v THEN find_at(t, t.right[subtree], v)
    ELSE subtree

contains(t, v) == find_at(t, t.root, v) # Null

extract_leaf(t, leaf_to_erase) ==
    IF t.parent[leaf_to_erase] # Null
    THEN replace_child(t, t.parent[leaf_to_erase], leaf_to_erase, Null)
    ELSE [t EXCEPT !.root = Null]

\* Mutant: the child that becomes the root keeps its parent pointer.
extract_single_node_keeps_parent(t, node_to_erase) ==
    LET child == IF t.left[node_to_erase] # Null THEN t.left[node_to_erase]
                                                ELSE t.right[node_to_erase]
    IN  IF t.parent[node_to_erase] # Null
        THEN replace_child(t, t.parent[node_to_erase], node_to_erase, child)
        ELSE [t EXCEPT !.root = child]

extract_single_node(t, node_to_erase) ==
    LET child == IF t.left[node_to_erase] # Null THEN t.left[node_to_erase]
                                                ELSE t.right[node_to_erase]
    IN  IF t.parent[node_to_erase] # Null
        THEN replace_child(t, t.parent[node_to_erase], node_to_erase, child)
        ELSE [t EXCEPT !.root = child, !.parent[child] = Null]

\* The while loop of extract_min_node: the leftmost node under subtree.
RECURSIVE leftmost(_, _)
leftmost(t, subtree) ==
    IF t.left[subtree] # Null THEN leftmost(t, t.left[subtree]) ELSE subtree

\* extract_min_node returns the tree and the node it unlinked.
extract_min_node(t, subtree) ==
    LET m == leftmost(t, subtree)
    IN  [tree |-> IF t.right[m] # Null THEN extract_single_node(t, m)
                                       ELSE extract_leaf(t, m),
         node |-> m]

\* Mutant: the two subtrees are hung on the wrong sides.
extract_double_node_swapped(t, node_to_erase) ==
    LET r == extract_min_node(t, t.right[node_to_erase])
        min_node == r.node
        t1 == r.tree
        t2 == IF t1.parent[node_to_erase] # Null
              THEN replace_child(t1, t1.parent[node_to_erase], node_to_erase, min_node)
              ELSE [t1 EXCEPT !.root = min_node, !.parent[min_node] = Null]
        t3 == attach_on_left(t2, min_node, t2.right[node_to_erase])
    IN  attach_on_right(t3, min_node, t3.left[node_to_erase])

\* Mutant: the right subtree is not hung back.
extract_double_node_drops_right(t, node_to_erase) ==
    LET r == extract_min_node(t, t.right[node_to_erase])
        min_node == r.node
        t1 == r.tree
        t2 == IF t1.parent[node_to_erase] # Null
              THEN replace_child(t1, t1.parent[node_to_erase], node_to_erase, min_node)
              ELSE [t1 EXCEPT !.root = min_node, !.parent[min_node] = Null]
        t3 == attach_on_left(t2, min_node, t2.left[node_to_erase])
    IN  attach_on_right(t3, min_node, Null)

\* Mutant: the erased node's parent (or the root) is not told of the
\* successor.
extract_double_node_not_relinked(t, node_to_erase) ==
    LET r == extract_min_node(t, t.right[node_to_erase])
        min_node == r.node
        t1 == r.tree
        t3 == attach_on_left(t1, min_node, t1.left[node_to_erase])
    IN  attach_on_right(t3, min_node, t3.right[node_to_erase])

extract_double_node(t, node_to_erase) ==
    LET r == extract_min_node(t, t.right[node_to_erase])
        min_node == r.node
        t1 == r.tree
        t2 == IF t1.parent[node_to_erase] # Null
              THEN replace_child(t1, t1.parent[node_to_erase], node_to_erase, min_node)
              ELSE [t1 EXCEPT !.root = min_node, !.parent[min_node] = Null]
        t3 == attach_on_left(t2, min_node, t2.left[node_to_erase])
    IN  attach_on_right(t3, min_node, t3.right[node_to_erase])

extract_node(t, node) ==
    IF t.left[node] = Null /\ t.right[node] = Null
    THEN extract_leaf(t, node)
    ELSE IF t.left[node] # Null /\ t.right[node] # Null
    THEN extract_double_node(t, node)
    ELSE extract_single_node(t, node)

\* Mutant: the size is not counted down.
erase_keeps_size(t, v) ==
    LET node_to_erase == find_at(t, t.root, v)
    IN  IF node_to_erase # Null
        THEN delete_node(extract_node(t, node_to_erase), node_to_erase)
        ELSE t

erase(t, v) ==
    LET node_to_erase == find_at(t, t.root, v)
    IN  IF node_to_erase # Null
        THEN [delete_node(extract_node(t, node_to_erase), node_to_erase)
                 EXCEPT !.tree_size = @ - 1]
        ELSE t

\* Which case of extract_node a call erase(v) takes (history only).
erase_case(t, v) ==
    LET n == find_at(t, t.root, v)
    IN  IF n = Null THEN "absent"
        ELSE IF t.left[n] = Null /\ t.right[n] = Null THEN "leaf"
        ELSE IF t.left[n] # Null /\ t.right[n] # Null THEN "double"
        ELSE "single"

(***************************************************************************)
(*               stable-selection-sort/stable-selection-sort.cpp           *)
(***************************************************************************)

\* enum class CardRank : unsigned char { TWO = '2', THREE, ..., ACE }
TWO == 50

\* ACE is the thirteenth enumerator: '2' + 12.
ACE == 62

\* The callers of the deck use the ranks TWO .. TWO + NumRanks - 1.
NumRanks == 2

Ranks == TWO..(TWO + NumRanks - 1)

\* enum CardSuite : unsigned char
SPADE == 83
HEART == 72
DIAMOND == 68
CLUB == 67

\* The suits in the order generateStandardDeck goes through them.
Suites == <<SPADE, HEART, CLUB, DIAMOND>>

\* The callers of the deck use cards of two suits: no code of the deck reads
\* a suit, two are what tells cards of one rank apart.
DeckSuites == {SPADE, HEART}

\* struct Card { CardSuite suite; CardRank rank; }
Card(s, r) == [suite |-> s, rank |-> r]

DeckCards == {Card(s, r) : s \in DeckSuites, r \in Ranks}

\* Card{}: the value-initialised card of the before-head node.
NoCard == Card(0, 0)

\* Card::operator== and Card::operator< look at the rank alone.
CardEq(a, b) == a.rank = b.rank

CardLess(a, b) == a.rank < b.rank

\* A deck built through the interface holds at most MaxDeck cards.
MaxDeck == 3

\* The standard deck of the model has the ranks TWO .. TWO + StdRanks - 1
\* (the program's has 13, up to ACE) in all four suits.
StdRanks == 1

StdTopRank == TWO + StdRanks - 1

StdSize == StdRanks * Len(Suites)

\* The addresses `new Node` can return, and the address of the deck's own
\* member beforeHeadNode.
DeckAddrs == 1..(IF MaxDeck > StdSize THEN MaxDeck ELSE StdSize)

beforeHeadNode == -1

DeckNodes == DeckAddrs \cup {beforeHeadNode}

\* Deck::Deck(): the before-head node holds Card{} and no successor.
EmptyDeck ==
    [card |-> [n \in DeckNodes |-> NoCard],
     next |-> [n \in DeckNodes |-> Null],
     deckSize |-> 0,
     live |-> {},
     failed |-> FALSE]

deck_size(d) == d.deckSize

deck_empty(d) == deck_size(d) = 0

beforeBegin(d) == beforeHeadNode

\* begin() is std::next(beforeBegin()).
begin(d) == d.next[beforeBegin(d)]

end(d) == Null

\* std::next(it, n): n times ++it, each reading node->next.
RECURSIVE std_next(_, _, _)
std_next(d, it, n) ==
    IF n = 0 THEN it ELSE std_next(d, d.next[it], n - 1)

\* The nodes met from `from` on by following next, at most `fuel` of them.
RECURSIVE Walk(_, _, _)
Walk(d, from, fuel) ==
    IF from = Null \/ fuel = 0 THEN <<>>
    ELSE <<from>> \o Walk(d, d.next[from], fuel - 1)

\* Following next from `from` reaches nullptr (the chain has no cycle).
RECURSIVE EndsAtNull(_, _, _)
EndsAtNull(d, from, fuel) ==
    IF from = Null THEN TRUE
    ELSE IF fuel = 0 THEN FALSE
    ELSE EndsAtNull(d, d.next[from], fuel - 1)

\* The traversal begin() .. end(): the nodes, and the cards they hold.
Chain(d) == Walk(d, begin(d), Cardinality(DeckAddrs))

Cards(d) == [i \in 1..Len(Chain(d)) |-> d.card[Chain(d)[i]]]

\* The address `new Node` returns: the lowest free one, none when memory is
\* exhausted.
free_node(d) ==
    LET free == DeckAddrs \ d.live
    IN  IF free = {} THEN {}
        ELSE {CHOOSE m \in free : \A k \in free : m <= k}

\* new Node{card}: the successor defaults to nullptr.
new_Node(d, n, c) ==
    [d EXCEPT !.live = @ \cup {n}, !.card[n] = c, !.next[n] = Null]

delete_Node(d, n) ==
    [d EXCEPT !.live = @ \ {n}, !.card[n] = NoCard, !.next[n] = Null]

\* Mutant: the two assignments in the other order.
attachAfter_swapped(d, node, nodeToAttach) ==
    IF node = Null THEN [d EXCEPT !.failed = TRUE]
    ELSE [d EXCEPT !.next[node] = nodeToAttach,
                   !.next[nodeToAttach] = nodeToAttach]

\* attachAfter: a failed assert aborts the program (failed is set).
attachAfter(d, node, nodeToAttach) ==
    IF node = Null THEN [d EXCEPT !.failed = TRUE]
    ELSE [d EXCEPT !.next[nodeToAttach] = d.next[node],
                   !.next[node] = nodeToAttach]

\* extractAfter returns the deck and the node it unlinked.
extractAfter(d, node) ==
    IF node = Null \/ d.next[node] = Null
    THEN [deck |-> [d EXCEPT !.failed = TRUE], node |-> Null]
    ELSE LET nodeToExtract == d.next[node]
         IN  [deck |-> [d EXCEPT !.next[node] = d.next[nodeToExtract]],
              node |-> nodeToExtract]

\* insertAfter(it, card), where `new` returned the address n.
insertAfter(d, it, c, n) ==
    LET d1 == attachAfter(new_Node(d, n, c), it, n)
    IN  [d1 EXCEPT !.deckSize = @ + 1]

eraseAfter(d, it) ==
    LET r == extractAfter(d, it)
    IN  IF r.deck.failed THEN r.deck
        ELSE [delete_Node(r.deck, r.node) EXCEPT !.deckSize = @ - 1]

pushFront(d, c, n) == insertAfter(d, beforeBegin(d), c, n)

popFront(d) == eraseAfter(d, beforeBegin(d))

\* std::iter_swap(a, b) swaps the cards of the two nodes.
iter_swap(d, a, b) ==
    [d EXCEPT !.card[a] = d.card[b], !.card[b] = d.card[a]]

\* Mutant: the offset is drawn from the whole deck, not from minOffset on.
shuffle_offsets_from_zero(d, minOffset) == 0..(deck_size(d) - 1)

\* The offsets the distribution can return for param{minOffset, size() - 1}.
shuffle_offsets(d, minOffset) == minOffset..(deck_size(d) - 1)

\* The body of shuffle's loop for the iterator `it` and the offset drawn.
shuffle_body(d, it, offset) == iter_swap(d, it, std_next(d, begin(d), offset))

\* The loop of findBeforeMin, entered after ++beforeStart.
RECURSIVE findBeforeMin_loop(_, _, _)
\* Mutant: the comparison the other way round, the maximum is found.
findBeforeMin_loop_max(d, beforeStart, beforeMin) ==
    IF beforeStart # end(d) /\ d.next[beforeStart] # end(d)
    THEN findBeforeMin_loop(d, d.next[beforeStart],
             IF CardLess(d.card[d.next[beforeMin]], d.card[d.next[beforeStart]])
             THEN beforeStart ELSE beforeMin)
    ELSE beforeMin

\* Mutant: <= for <, the last of the minima is found.
findBeforeMin_loop_last_min(d, beforeStart, beforeMin) ==
    IF beforeStart # end(d) /\ d.next[beforeStart] # end(d)
    THEN findBeforeMin_loop(d, d.next[beforeStart],
             IF ~CardLess(d.card[d.next[beforeMin]], d.card[d.next[beforeStart]])
             THEN beforeStart ELSE beforeMin)
    ELSE beforeMin

findBeforeMin_loop(d, beforeStart, beforeMin) ==
    IF beforeStart # end(d) /\ d.next[beforeStart] # end(d)
    THEN findBeforeMin_loop(d, d.next[beforeStart],
             IF CardLess(d.card[d.next[beforeStart]], d.card[d.next[beforeMin]])
             THEN beforeStart ELSE beforeMin)
    ELSE beforeMin

\* Mutant: beforeMin starts one node too far.
findBeforeMin_starts_late(d, beforeStart) ==
    findBeforeMin_loop(d, d.next[beforeStart], d.next[beforeStart])

\* Mutant: the scan is left out, the first node after the start is taken.
findBeforeMin_keeps_start(d, beforeStart) == beforeStart

findBeforeMin(d, beforeStart) ==
    findBeforeMin_loop(d, d.next[beforeStart], beforeStart)

\* The two asserts at the end of findBeforeMin.
findBeforeMin_asserts(d, beforeMin) ==
    beforeMin # end(d) /\ d.next[beforeMin] # end(d)

\* The first half of the body of the sort's loop: find and unlink the minimum.
\* Mutant: the minimum is erased (unlinked and deleted), not just unlinked.
sort_extract_by_erase(d, inserter) ==
    LET beforeMin == findBeforeMin(d, inserter)
    IN  [deck |-> eraseAfter(d, beforeMin), node |-> d.next[beforeMin]]

sort_extract(d, inserter) ==
    LET beforeMin == findBeforeMin(d, inserter)
    IN  IF ~findBeforeMin_asserts(d, beforeMin)
        THEN [deck |-> [d EXCEPT !.failed = TRUE], node |-> Null]
        ELSE extractAfter(d, beforeMin)

\* The second half: relink it after the inserter.
sort_attach(d, inserter, extracted) == attachAfter(d, inserter, extracted)

\* stableSelectionSort(), from the inserter on.
RECURSIVE sort_loop(_, _)
sort_loop(d, inserter) ==
    IF d.failed \/ d.next[inserter] = end(d) THEN d
    ELSE LET r == sort_extract(d, inserter)
             d1 == IF r.deck.failed THEN r.deck
                   ELSE sort_attach(r.deck, inserter, r.node)
         IN  sort_loop(d1, d1.next[inserter])

stableSelectionSort(d) == sort_loop(d, beforeBegin(d))

\* generateStandardDeck: the cards it pushes, in the order it pushes them
\* (the outer loop runs while rank >= TWO, the inner one over the suits).
RECURSIVE generated_cards(_)
\* Mutant: the loop runs while rank > TWO, the twos are not made.
generated_cards_above_two(rank) ==
    IF rank > TWO
    THEN [i \in 1..Len(Suites) |-> Card(Suites[i], rank)] \o generated_cards(rank - 1)
    ELSE <<>>

generated_cards(rank) ==
    IF rank >= TWO
    THEN [i \in 1..Len(Suites) |-> Card(Suites[i], rank)] \o generated_cards(rank - 1)
    ELSE <<>>

RECURSIVE push_all(_, _)
push_all(d, cards) ==
    IF cards = <<>> THEN d
    ELSE push_all(pushFront(d, Head(cards), CHOOSE n \in free_node(d) : TRUE),
                  Tail(cards))

generateStandardDeck == push_all(EmptyDeck, generated_cards(StdTopRank))

\* std::is_sorted(deck.begin(), deck.end()) with Card::operator<
is_sorted(cards) ==
    \A i \in 1..(Len(cards) - 1) : ~CardLess(cards[i + 1], cards[i])

\* std::find(jt, end, c) with Card::operator==: the first place from jt on
\* holding a card equal to c, Len + 1 (the end) when there is none.
RECURSIVE std_find(_, _, _)
std_find(cards, jt, c) ==
    IF jt > Len(cards) THEN jt
    ELSE IF CardEq(cards[jt], c) THEN jt
    ELSE std_find(cards, jt + 1, c)

\* The inner loop of isStandardDeckStablySorted: i counts the passes left,
\* it is the place in the deck and jt the place in the shuffled collection.
RECURSIVE stably_inner(_, _, _, _, _)
stably_inner(deck, shuffled, it, jt, i) ==
    IF i = 0 THEN TRUE
    ELSE LET found == std_find(shuffled, jt, deck[it])
         IN  IF found > Len(shuffled) THEN FALSE
             ELSE stably_inner(deck, shuffled, it + 1, found, i - 1)

\* Its outer loop: four cards of the deck per pass.
RECURSIVE stably_outer(_, _, _)
stably_outer(deck, shuffled, it) ==
    IF it > Len(deck) THEN TRUE
    ELSE IF ~stably_inner(deck, shuffled, it, 1, 4) THEN FALSE
    ELSE stably_outer(deck, shuffled, it + 4)

isStandardDeckStablySorted(deck, shuffled) == stably_outer(deck, shuffled, 1)

(***************************************************************************)
(*                     The state machines of the programs                  *)
(***************************************************************************)

\* main() of binary-tree.cpp
VARIABLES
    main_pc,           \* where main is: "off" when the tree is driven freely
    test_vector_size,  \* main's test_vector_size
    todo               \* the values of test_vector the running loop has yet to reach

mainVars == <<main_pc, test_vector_size, todo>>

\* Deck, and the callers in stable-selection-sort.cpp
VARIABLES
    card,          \* Node::card
    next,          \* Node::next
    deckSize,      \* Deck::deckSize
    live,          \* the nodes that were new'ed and not yet deleted
    failed,        \* an assert has failed
    dpc,           \* the member function the deck is in: "idle" between calls
    it,            \* shuffle: the loop's iterator
    minOffset,     \* shuffle: minOffset
    inserter,      \* stableSelectionSort: inserter
    extracted,     \* stableSelectionSort: extracted
    after_sort,    \* history: the last call that returned was stableSelectionSort
    sort_input,    \* history: the traversal when that call began
    test_pc,       \* where the test is: "off" when the deck is driven freely
    gen_rank,      \* generateStandardDeck: rank
    gen_suite,     \* generateStandardDeck: the place of suite in the suits' list
    shuffledCollection,  \* the test's copy of the shuffled deck
    report         \* what the test found: is the deck sorted, is it stably sorted

deckVars == <<card, next, deckSize, live, failed>>
deckCtl == <<dpc, it, minOffset, inserter, extracted>>
deckHist == <<after_sort, sort_input>>
testVars == <<test_pc, gen_rank, gen_suite, shuffledCollection, report>>

vars == <<treeVars, treeHist, mainVars, deckVars, deckCtl, deckHist, testVars>>

SetTree(t) ==
    /\ value' = t.value
    /\ parent' = t.parent
    /\ left' = t.left
    /\ right' = t.right
    /\ root' = t.root
    /\ tree_size' = t.tree_size
    /\ allocated' = t.allocated
    /\ mem_fault' = t.mem_fault

NoCall == [op |-> "none", arg |-> 0, kind |-> "none", at_root |-> FALSE]

\* tree<int> test_tree;
TreeInit ==
    /\ value = EmptyTree.value
    /\ parent = EmptyTree.parent
    /\ left = EmptyTree.left
    /\ right = EmptyTree.right
    /\ root = EmptyTree.root
    /\ tree_size = EmptyTree.tree_size
    /\ allocated = EmptyTree.allocated
    /\ mem_fault = EmptyTree.mem_fault
    /\ ret = FALSE
    /\ last = NoCall
    /\ present = {}
    /\ only_inserts = TRUE

MainOff ==
    /\ main_pc = "off"
    /\ test_vector_size = 0
    /\ todo = {}

Deck ==
    [card |-> card, next |-> next, deckSize |-> deckSize, live |-> live,
     failed |-> failed]

SetDeck(d) ==
    /\ card' = d.card
    /\ next' = d.next
    /\ deckSize' = d.deckSize
    /\ live' = d.live
    /\ failed' = d.failed

DeckIs(d) ==
    /\ card = d.card
    /\ next = d.next
    /\ deckSize = d.deckSize
    /\ live = d.live
    /\ failed = d.failed

DeckCtlInit ==
    /\ dpc = "idle"
    /\ it = Null
    /\ minOffset = 0
    /\ inserter = Null
    /\ extracted = Null
    /\ after_sort = FALSE
    /\ sort_input = <<>>

\* Deck deck;
DeckInit ==
    /\ DeckIs(EmptyDeck)
    /\ DeckCtlInit

NoReport == [sorted |-> TRUE, stably |-> TRUE]

TestOff ==
    /\ test_pc = "off"
    /\ gen_rank = 0
    /\ gen_suite = 0
    /\ shuffledCollection = <<>>
    /\ report = NoReport

\* The tree's call: test_tree.insert(v)
insert_call(v) ==
    \E n \in free_address(Tree) :
        LET r == insert(Tree, v, n)
        IN  /\ SetTree(r.tree)
            /\ ret' = r.ret
            /\ last' = [op |-> "insert", arg |-> v,
                        kind |-> IF contains(Tree, v) THEN "dup" ELSE "new",
                        at_root |-> root = Null]
            /\ present' = present \cup {v}
            /\ UNCHANGED only_inserts

\* The tree's call: test_tree.erase(v)
erase_call(v) ==
    /\ SetTree(erase(Tree, v))
    /\ last' = [op |-> "erase", arg |-> v, kind |-> erase_case(Tree, v),
                at_root |-> root # Null /\ find_at(Tree, root, v) = root]
    /\ present' = present \ {v}
    /\ only_inserts' = FALSE
    /\ UNCHANGED ret

------------------------------------------------------------------------------
\* TreeSpec: any sequence of insert and erase calls on one tree.

Insert(v) ==
    /\ insert_call(v)
    /\ UNCHANGED <<mainVars, deckVars, deckCtl, deckHist, testVars>>

Erase(v) ==
    /\ erase_call(v)
    /\ UNCHANGED <<mainVars, deckVars, deckCtl, deckHist, testVars>>

TreeNext ==
    \/ \E v \in Values : Insert(v)
    \/ \E v \in Values : Erase(v)

TreeSpecInit ==
    /\ TreeInit
    /\ MainOff
    /\ DeckInit
    /\ TestOff

TreeSpec == TreeSpecInit /\ [][TreeNext]_vars

------------------------------------------------------------------------------
\* MainSpec: main() of binary-tree.cpp.  The test vector holds
\* test_vector_size distinct values in a random order (here 1..n for the
\* program's 0..n-1); main inserts them all, shuffles the vector, and erases
\* them all.

MainInit ==
    /\ TreeInit
    /\ test_vector_size \in 0..MaxVal
    /\ todo = 1..test_vector_size
    /\ main_pc = "fill"
    /\ DeckInit
    /\ TestOff

\* for(int e : test_vector) test_tree.insert(e);
MainInsert(e) ==
    /\ main_pc = "fill"
    /\ e \in todo
    /\ insert_call(e)
    /\ todo' = todo \ {e}
    /\ UNCHANGED <<main_pc, test_vector_size, deckVars, deckCtl, deckHist, testVars>>

\* The first loop is over: the assert on the size, then the shuffle.
MainFilled ==
    /\ main_pc = "fill"
    /\ todo = {}
    /\ main_pc' = "drain"
    /\ todo' = 1..test_vector_size
    /\ UNCHANGED <<test_vector_size, treeVars, treeHist,
                   deckVars, deckCtl, deckHist, testVars>>

\* for(int e : test_vector) test_tree.erase(e);
MainErase(e) ==
    /\ main_pc = "drain"
    /\ e \in todo
    /\ erase_call(e)
    /\ todo' = todo \ {e}
    /\ UNCHANGED <<main_pc, test_vector_size, deckVars, deckCtl, deckHist, testVars>>

\* The second loop is over: the assert on empty().
MainEmptied ==
    /\ main_pc = "drain"
    /\ todo = {}
    /\ main_pc' = "done"
    /\ UNCHANGED <<test_vector_size, todo, treeVars, treeHist,
                   deckVars, deckCtl, deckHist, testVars>>

MainNext ==
    \/ \E e \in Values : MainInsert(e)
    \/ MainFilled
    \/ \E e \in Values : MainErase(e)
    \/ MainEmptied

MainSpec == MainInit /\ [][MainNext]_vars

------------------------------------------------------------------------------
\* DeckSpec: any sequence of calls on one deck, the cards drawn from
\* DeckCards.  shuffle and stableSelectionSort take one step per pass of
\* their loops; no other call starts while one of them runs.

DeckIdle == dpc = "idle" /\ ~failed

ForgetSort ==
    /\ after_sort' = FALSE
    /\ sort_input' = <<>>

\* The positions a caller can name: before-begin and the nodes of the chain.
Positions == {beforeBegin(Deck)} \cup {Chain(Deck)[i] : i \in 1..Len(Chain(Deck))}

\* deck.pushFront(c)
PushFront(c) ==
    /\ DeckIdle
    /\ deckSize < MaxDeck
    /\ \E n \in free_node(Deck) : SetDeck(pushFront(Deck, c, n))
    /\ ForgetSort
    /\ UNCHANGED <<deckCtl, testVars, treeVars, treeHist, mainVars>>

\* deck.popFront(), the deck not empty
PopFront ==
    /\ DeckIdle
    /\ ~deck_empty(Deck)
    /\ SetDeck(popFront(Deck))
    /\ ForgetSort
    /\ UNCHANGED <<deckCtl, testVars, treeVars, treeHist, mainVars>>

\* deck.insertAfter(pos, c)
InsertAfter(pos, c) ==
    /\ DeckIdle
    /\ deckSize < MaxDeck
    /\ pos \in Positions
    /\ \E n \in free_node(Deck) : SetDeck(insertAfter(Deck, pos, c, n))
    /\ ForgetSort
    /\ UNCHANGED <<deckCtl, testVars, treeVars, treeHist, mainVars>>

\* deck.eraseAfter(pos), pos having a successor
EraseAfter(pos) ==
    /\ DeckIdle
    /\ pos \in Positions
    /\ next[pos] # Null
    /\ SetDeck(eraseAfter(Deck, pos))
    /\ ForgetSort
    /\ UNCHANGED <<deckCtl, testVars, treeVars, treeHist, mainVars>>

\* deck.shuffle(generator) is called: it = begin(), and the loop's first test.
shuffle_call ==
    /\ DeckIdle
    /\ ForgetSort
    /\ IF begin(Deck) # end(Deck)
       THEN /\ dpc' = "shuffle"
            /\ it' = begin(Deck)
       ELSE /\ dpc' = "idle"
            /\ it' = Null
    /\ minOffset' = 0
    /\ UNCHANGED <<deckVars, inserter, extracted>>

\* One pass of shuffle's loop, the distribution returning offset; ++it and
\* the loop's test follow.
shuffle_pass(offset) ==
    /\ dpc = "shuffle"
    /\ ~failed
    /\ offset \in shuffle_offsets(Deck, minOffset)
    /\ SetDeck(shuffle_body(Deck, it, offset))
    /\ IF next[it] # end(Deck)
       THEN /\ dpc' = "shuffle"
            /\ it' = next[it]
            /\ minOffset' = minOffset + 1
       ELSE /\ dpc' = "idle"
            /\ it' = Null
            /\ minOffset' = 0
    /\ UNCHANGED <<inserter, extracted, deckHist>>

ShuffleCall ==
    /\ shuffle_call
    /\ UNCHANGED <<testVars, treeVars, treeHist, mainVars>>

ShufflePass(offset) ==
    /\ shuffle_pass(offset)
    /\ UNCHANGED <<testVars, treeVars, treeHist, mainVars>>

\* Mutant: the loop is entered without its first test (a do-while).
SortCall_no_test ==
    /\ DeckIdle
    /\ sort_input' = Chain(Deck)
    /\ dpc' = "sort"
    /\ inserter' = beforeBegin(Deck)
    /\ after_sort' = FALSE
    /\ UNCHANGED <<deckVars, it, minOffset, extracted>>
    /\ UNCHANGED <<testVars, treeVars, treeHist, mainVars>>

\* deck.stableSelectionSort() is called: inserter = beforeBegin(), and the
\* loop's first test.
SortCall ==
    /\ DeckIdle
    /\ sort_input' = Chain(Deck)
    /\ IF next[beforeBegin(Deck)] # end(Deck)
       THEN /\ dpc' = "sort"
            /\ inserter' = beforeBegin(Deck)
            /\ after_sort' = FALSE
       ELSE /\ dpc' = "idle"
            /\ inserter' = Null
            /\ after_sort' = TRUE
    /\ UNCHANGED <<deckVars, it, minOffset, extracted>>
    /\ UNCHANGED <<testVars, treeVars, treeHist, mainVars>>

\* beforeMin = findBeforeMin(inserter); extracted = extractAfter(beforeMin)
SortExtract ==
    /\ dpc = "sort"
    /\ ~failed
    /\ LET r == sort_extract(Deck, inserter)
       IN  /\ SetDeck(r.deck)
           /\ extracted' = r.node
    /\ dpc' = "extracted"
    /\ UNCHANGED <<it, minOffset, inserter, deckHist>>
    /\ UNCHANGED <<testVars, treeVars, treeHist, mainVars>>

\* Mutant: ++inserter is left out.
SortAttach_no_advance ==
    /\ dpc = "extracted"
    /\ ~failed
    /\ LET d == sort_attach(Deck, inserter, extracted)
       IN  /\ SetDeck(d)
           /\ IF d.next[inserter] # end(d)
              THEN /\ dpc' = "sort"
                   /\ inserter' = inserter
                   /\ after_sort' = FALSE
              ELSE /\ dpc' = "idle"
                   /\ inserter' = Null
                   /\ after_sort' = TRUE
    /\ extracted' = Null
    /\ UNCHANGED <<it, minOffset, sort_input>>
    /\ UNCHANGED <<testVars, treeVars, treeHist, mainVars>>

\* attachAfter(inserter, extracted); ++inserter; and the loop's test
SortAttach ==
    /\ dpc = "extracted"
    /\ ~failed
    /\ LET d == sort_attach(Deck, inserter, extracted)
       IN  /\ SetDeck(d)
           /\ IF d.next[d.next[inserter]] # end(d)
              THEN /\ dpc' = "sort"
                   /\ inserter' = d.next[inserter]
                   /\ after_sort' = FALSE
              ELSE /\ dpc' = "idle"
                   /\ inserter' = Null
                   /\ after_sort' = TRUE
    /\ extracted' = Null
    /\ UNCHANGED <<it, minOffset, sort_input>>
    /\ UNCHANGED <<testVars, treeVars, treeHist, mainVars>>

DeckNext ==
    \/ \E c \in DeckCards : PushFront(c)
    \/ PopFront
    \/ \E pos \in DeckNodes, c \in DeckCards : InsertAfter(pos, c)
    \/ \E pos \in DeckNodes : EraseAfter(pos)
    \/ ShuffleCall
    \/ \E offset \in 0..(MaxDeck - 1) : ShufflePass(offset)
    \/ SortCall
    \/ SortExtract
    \/ SortAttach

DeckSpecInit ==
    /\ TreeInit
    /\ MainOff
    /\ DeckInit
    /\ TestOff

DeckSpec == DeckSpecInit /\ [][DeckNext]_vars

------------------------------------------------------------------------------
\* SortSpec: stableSelectionSort called, any number of times, on a deck of
\* up to MaxDeck cards that pushFront built.  A call, once made, keeps
\* running: the program is single-threaded and the loop's body has no
\* suspension point, so a step of the sort that can be taken is taken.

\* The card sequences a caller may push.
SortInputs == UNION {[1..n -> DeckCards] : n \in 0..MaxDeck}

SortSpecInit ==
    /\ TreeInit
    /\ MainOff
    /\ TestOff
    /\ DeckCtlInit
    /\ \E cards \in SortInputs : DeckIs(push_all(EmptyDeck, cards))

SortNext ==
    \/ SortCall
    \/ SortExtract
    \/ SortAttach

SortSpec ==
    /\ SortSpecInit
    /\ [][SortNext]_vars
    /\ WF_vars(SortExtract)
    /\ WF_vars(SortAttach)

------------------------------------------------------------------------------
\* TestSpec: one test of genericTest (interactiveTest runs the same steps).
\* The deck is built by generateStandardDeck, shuffled, copied to
\* shuffledCollection, sorted and looked at.  generateStandardDeck takes one
\* step per card, shuffle one step per pass of its loop, the sort is one step.

TestSpecInit ==
    /\ TreeInit
    /\ MainOff
    /\ DeckInit
    /\ test_pc = "generate"
    /\ gen_rank = StdTopRank
    /\ gen_suite = 1
    /\ shuffledCollection = <<>>
    /\ report = NoReport

\* deck.pushFront(Card{suite, rank}) in generateStandardDeck; after the last
\* suit the rank goes down by one (an unsigned char), and the loop's test
\* rank >= TWO follows.
TestGenerate ==
    /\ test_pc = "generate"
    /\ gen_rank >= TWO
    /\ \E n \in free_node(Deck) :
           SetDeck(pushFront(Deck, Card(Suites[gen_suite], gen_rank), n))
    /\ IF gen_suite < Len(Suites)
       THEN /\ gen_suite' = gen_suite + 1
            /\ gen_rank' = gen_rank
            /\ test_pc' = "generate"
       ELSE /\ gen_suite' = 1
            /\ gen_rank' = (gen_rank - 1) % 256
            /\ test_pc' = IF gen_rank' >= TWO THEN "generate" ELSE "shuffle"
    /\ UNCHANGED <<shuffledCollection, report, deckCtl, deckHist>>
    /\ UNCHANGED <<treeVars, treeHist, mainVars>>

\* deck.shuffle(generator) is called
TestShuffleCall ==
    /\ test_pc = "shuffle"
    /\ shuffle_call
    /\ test_pc' = IF dpc' = "idle" THEN "copy" ELSE "shuffling"
    /\ UNCHANGED <<gen_rank, gen_suite, shuffledCollection, report>>
    /\ UNCHANGED <<treeVars, treeHist, mainVars>>

TestShufflePass(offset) ==
    /\ test_pc = "shuffling"
    /\ shuffle_pass(offset)
    /\ test_pc' = IF dpc' = "idle" THEN "copy" ELSE "shuffling"
    /\ UNCHANGED <<gen_rank, gen_suite, shuffledCollection, report>>
    /\ UNCHANGED <<treeVars, treeHist, mainVars>>

\* std::vector shuffledCollection(deck.begin(), deck.end());
TestCopy ==
    /\ test_pc = "copy"
    /\ shuffledCollection' = Cards(Deck)
    /\ test_pc' = "sort"
    /\ UNCHANGED <<gen_rank, gen_suite, report, deckVars, deckCtl, deckHist>>
    /\ UNCHANGED <<treeVars, treeHist, mainVars>>

\* deck.stableSelectionSort();
TestSort ==
    /\ test_pc = "sort"
    /\ DeckIdle
    /\ sort_input' = Chain(Deck)
    /\ SetDeck(stableSelectionSort(Deck))
    /\ after_sort' = TRUE
    /\ test_pc' = "check"
    /\ UNCHANGED <<gen_rank, gen_suite, shuffledCollection, report, deckCtl>>
    /\ UNCHANGED <<treeVars, treeHist, mainVars>>

\* The two checks of the test.
TestCheck ==
    /\ test_pc = "check"
    /\ report' = [sorted |-> is_sorted(Cards(Deck)),
                  stably |-> isStandardDeckStablySorted(Cards(Deck), shuffledCollection)]
    /\ test_pc' = "done"
    /\ UNCHANGED <<gen_rank, gen_suite, shuffledCollection, deckVars, deckCtl, deckHist>>
    /\ UNCHANGED <<treeVars, treeHist, mainVars>>

TestNext ==
    \/ TestGenerate
    \/ TestShuffleCall
    \/ \E offset \in 0..(StdSize - 1) : TestShufflePass(offset)
    \/ TestCopy
    \/ TestSort
    \/ TestCheck

TestSpec == TestSpecInit /\ [][TestNext]_vars

(***************************************************************************)
(*                         Properties of the tree                          *)
(***************************************************************************)

\* The values met by an in-order traversal of the subtree of n.
RECURSIVE InOrder(_, _)
InOrder(t, n) ==
    IF n = Null THEN <<>>
    ELSE InOrder(t, t.left[n]) \o <<t.value[n]>> \o InOrder(t, t.right[n])

StrictlyAscending(s) == \A i \in 1..(Len(s) - 1) : s[i] < s[i + 1]

\* C1: from the empty tree, after any sequence of insert calls (no erase),
\* contains(v) is true exactly for the values v that were inserted.
C1_ContainsExactlyInserted ==
    only_inserts => \A v \in Values : contains(Tree, v) <=> v \in present

\* Three values went in, one after the other, and one never did.
C1_Witness ==
    /\ only_inserts
    /\ last.op = "insert"
    /\ Cardinality(present) >= 3
    /\ present # Values
    /\ tree_size = Cardinality(present)

\* C2: after erase(v), contains(v) is false; the size went down by exactly
\* one if v was in the tree, and nothing of the tree changed if it was not.
C2_EraseRemovesOne ==
    [][last'.op = "erase" =>
          /\ ~contains(Tree', last'.arg)
          /\ contains(Tree, last'.arg) => tree_size' = tree_size - 1
          /\ ~contains(Tree, last'.arg) => UNCHANGED treeVars]_vars

\* The root, with two children, was erased.
C2_Witness ==
    /\ last.op = "erase"
    /\ last.kind = "double"
    /\ last.at_root
    /\ ~contains(Tree, last.arg)
    /\ tree_size >= 2
    /\ tree_size = Cardinality(present)

\* C3: the in-order traversal is strictly ascending, and at every node the
\* values of the left subtree are smaller and those of the right one larger.
C3_SearchOrder ==
    /\ StrictlyAscending(InOrder(Tree, root))
    /\ \A n \in Reachable(Tree) :
          /\ \A m \in Subtree(Tree, left[n]) : value[m] < value[n]
          /\ \A m \in Subtree(Tree, right[n]) : value[n] < value[m]

\* A node with two children was erased from a tree that keeps three nodes.
C3_Witness ==
    /\ last.op = "erase"
    /\ last.kind = "double"
    /\ tree_size >= 3
    /\ Len(InOrder(Tree, root)) = tree_size

\* C4: insert(v) of a value the tree holds returns false and changes
\* nothing: not the size, the root, nor any node's value or links.
C4_DuplicateInsertChangesNothing ==
    [][(last'.op = "insert" /\ contains(Tree, last'.arg)) =>
          (ret' = FALSE /\ UNCHANGED treeVars)]_vars

\* A duplicate was offered to a tree of two nodes or more.
C4_Witness ==
    /\ last.op = "insert"
    /\ last.kind = "dup"
    /\ ret = FALSE
    /\ contains(Tree, last.arg)
    /\ tree_size >= 2

\* C5: once main has inserted its n distinct values the size is n, and once
\* it has erased them all, in any order, the tree is empty.
C5_RoundTrip ==
    /\ (main_pc = "fill" /\ todo = {}) => tree_size = test_vector_size
    /\ (main_pc = "drain" /\ todo = {}) \/ main_pc = "done" =>
          (empty(Tree) /\ size(Tree) = 0 /\ root = Null)

\* main ran to its end on a vector of three values or more.
C5_Witness ==
    /\ main_pc = "done"
    /\ test_vector_size >= 3
    /\ empty(Tree)
    /\ last.op = "erase"

\* C10: after every call the allocated nodes are exactly the nodes the root
\* reaches and no delete hit a freed or a linked node; erase(v) frees the
\* node that held v and no other (the promoted successor stays in the
\* tree), and a rejected insert frees the node it allocated.
C10_NodeLifetime ==
    [][/\ allocated' = Reachable(Tree')
       /\ ~mem_fault'
       /\ (last'.op = "erase" /\ last'.kind # "absent") =>
             allocated' = allocated \ {find_at(Tree, root, last'.arg)}
       /\ (last'.op = "erase" /\ last'.kind = "double") =>
             leftmost(Tree, right[find_at(Tree, root, last'.arg)]) \in Reachable(Tree')
       /\ (last'.op = "erase" /\ last'.kind = "absent") => allocated' = allocated
       /\ (last'.op = "insert" /\ last'.kind = "dup") => allocated' = allocated]_vars

\* A node with two children was erased and its successor is still there.
C10_Witness ==
    /\ last.op = "erase"
    /\ last.kind = "double"
    /\ allocated = Reachable(Tree)
    /\ Cardinality(allocated) = tree_size

ValuesIn(t) == {t.value[n] : n \in Reachable(t)}

\* C12: erase(v) removes only v: contains(w) is the same before and after
\* the call for every value w other than v, and the set of values the root
\* reaches after the call is the set before it without v.
C12_EraseRemovesOnlyThat ==
    [][last'.op = "erase" =>
          /\ \A w \in Values \ {last'.arg} :
                contains(Tree', w) <=> contains(Tree, w)
          /\ ValuesIn(Tree') = ValuesIn(Tree) \ {last'.arg}]_vars

\* A node with one child and a parent was erased, and both its parent and
\* its child are still found.
C12_Witness ==
    /\ last.op = "erase"
    /\ last.kind = "single"
    /\ ~last.at_root
    /\ tree_size >= 2
    /\ ValuesIn(Tree) = present
    /\ \E w \in present : w < last.arg
    /\ \E w \in present : w > last.arg

\* The root has no parent, and every node is the parent of its children.
ParentsConsistent(t) ==
    /\ t.root # Null => t.parent[t.root] = Null
    /\ \A n \in Reachable(t) :
          /\ t.left[n] # Null => t.parent[t.left[n]] = n
          /\ t.right[n] # Null => t.parent[t.right[n]] = n

\* C13: after every insert and every erase the root, if any, has no parent
\* and every node's left and right child have that node as parent.  When
\* the root is erased in the single-child case the root becomes its only
\* child, in the two-children case the leftmost node of its right subtree,
\* and the new root's parent is null.
C13_ParentLinks ==
    [][/\ ParentsConsistent(Tree')
       /\ (last'.op = "erase" /\ last'.at_root /\ last'.kind = "single") =>
             /\ root' = (IF left[root] # Null THEN left[root] ELSE right[root])
             /\ root' # Null
             /\ parent'[root'] = Null
       /\ (last'.op = "erase" /\ last'.at_root /\ last'.kind = "double") =>
             /\ root' = leftmost(Tree, right[root])
             /\ parent'[root'] = Null]_vars

\* The root, which had one child, was erased: that child is the root now
\* and has a child of its own.
C13_Witness ==
    /\ last.op = "erase"
    /\ last.at_root
    /\ last.kind = "single"
    /\ root # Null
    /\ parent[root] = Null
    /\ left[root] # Null \/ right[root] # Null
    /\ tree_size >= 2
    /\ ~mem_fault

(***************************************************************************)
(*                         Properties of the deck                          *)
(***************************************************************************)

\* Node a comes before node b in the traversal.
Precedes(d, a, b) ==
    \E k, l \in 1..Len(Chain(d)) : k < l /\ Chain(d)[k] = a /\ Chain(d)[l] = b

NonDecreasing(cards) ==
    \A i, j \in 1..Len(cards) : i < j => cards[i].rank <= cards[j].rank

\* The suits of the cards of rank r, in the order the cards come.
RECURSIVE SuitsOfRank(_, _)
SuitsOfRank(cards, r) ==
    IF cards = <<>> THEN <<>>
    ELSE (IF Head(cards).rank = r THEN <<Head(cards).suite>> ELSE <<>>)
             \o SuitsOfRank(Tail(cards), r)

\* C6: once stableSelectionSort has returned, the traversal from begin() to
\* end() is non-decreasing by rank.
C6_SortedByRank ==
    (after_sort /\ dpc = "idle") => NonDecreasing(Cards(Deck))

\* A full deck that was not in order, two of its cards of one rank, was sorted.
C6_Witness ==
    /\ after_sort
    /\ dpc = "idle"
    /\ Len(sort_input) = MaxDeck
    /\ \E i \in 1..(MaxDeck - 1) :
          card[sort_input[i + 1]].rank < card[sort_input[i]].rank
    /\ \E i, j \in 1..MaxDeck :
          i # j /\ card[sort_input[i]].rank = card[sort_input[j]].rank
    /\ NonDecreasing(Cards(Deck))

\* C7: of two cards of one rank, the one that came first before the sort
\* comes first after it.
C7_Stable ==
    (after_sort /\ dpc = "idle") =>
        \A i, j \in 1..Len(sort_input) :
            (i < j /\ CardEq(card[sort_input[i]], card[sort_input[j]])) =>
                Precedes(Deck, sort_input[i], sort_input[j])

\* Two cards of one rank and of different suits came before a smaller card.
C7_Witness ==
    /\ after_sort
    /\ dpc = "idle"
    /\ Len(sort_input) >= 3
    /\ \E i, j, k \in 1..Len(sort_input) :
          /\ i < j
          /\ j < k
          /\ card[sort_input[i]].rank = card[sort_input[j]].rank
          /\ card[sort_input[i]].suite # card[sort_input[j]].suite
          /\ card[sort_input[k]].rank < card[sort_input[i]].rank
          /\ Precedes(Deck, sort_input[k], sort_input[i])
          /\ Precedes(Deck, sort_input[i], sort_input[j])

C9_ChainEndsAndCounts ==
    /\ EndsAtNull(Deck, begin(Deck), Cardinality(DeckAddrs))
    /\ \A k, l \in 1..Len(Chain(Deck)) : k # l => Chain(Deck)[k] # Chain(Deck)[l]
    /\ dpc = "idle" => Len(Chain(Deck)) = deck_size(Deck)

\* Inside the sort of a full deck, the minimum unlinked and not yet relinked.
C9_Witness ==
    /\ dpc = "extracted"
    /\ deckSize = MaxDeck
    /\ extracted # Null
    /\ Len(Chain(Deck)) = deckSize - 1
    /\ inserter # beforeHeadNode

\* How often x occurs in the sequence s.
CountIn(s, x) == Cardinality({i \in 1..Len(s) : s[i] = x})

\* A step of stableSelectionSort: the call with its first loop test, the
\* unlinking of a minimum, or its relinking with the test that follows.
SortStep ==
    \/ dpc \in {"sort", "extracted"}
    \/ dpc' = "sort"
    \/ dpc = "idle" /\ dpc' = "idle" /\ after_sort'

\* C14: stableSelectionSort only relinks nodes.  No step of it allocates or
\* frees a node, changes the card of a node or changes size(); when it
\* returns, the traversal holds exactly the nodes it held at the call, each
\* once, so the cards are a permutation of the input's.
C14_SortOnlyRelinks ==
    [][SortStep =>
          /\ card' = card
          /\ live' = live
          /\ deckSize' = deckSize
          /\ after_sort' =>
                /\ Len(Chain(Deck')) = Len(sort_input')
                /\ Len(Chain(Deck')) = deckSize'
                /\ \A n \in DeckAddrs :
                      CountIn(Chain(Deck'), n) = CountIn(sort_input', n)
                /\ \A c \in DeckCards :
                      CountIn(Cards(Deck'), c)
                          = CountIn([i \in 1..Len(sort_input') |-> card[sort_input'[i]]], c)]_vars

\* A sort of three cards or more has returned and has moved nodes.
C14_Witness ==
    /\ after_sort
    /\ dpc = "idle"
    /\ ~failed
    /\ deckSize >= 3
    /\ Chain(Deck) # sort_input
    /\ {Chain(Deck)[i] : i \in 1..Len(Chain(Deck))} = live

\* The nodes after position p, in the order of the traversal.
NodesAfter(d, p) == Walk(d, d.next[p], Cardinality(DeckAddrs))

\* C15: for every position p that has a successor, findBeforeMin(p) returns
\* the position just before the earliest node of minimum rank among the
\* nodes after p: it is p or a node after p, the node after it has a rank
\* <= that of every node after p, and every node between p and that node
\* has a strictly greater rank.
C15_FindBeforeMinEarliest ==
    \A p \in Positions :
        next[p] # Null =>
            LET after == NodesAfter(Deck, p)
                beforeMin == findBeforeMin(Deck, p)
                min == next[beforeMin]
            IN  /\ beforeMin # Null
                /\ \E k \in 1..Len(after) :
                      /\ after[k] = min
                      /\ beforeMin = (IF k = 1 THEN p ELSE after[k - 1])
                      /\ \A j \in 1..Len(after) : card[min].rank <= card[after[j]].rank
                      /\ \A j \in 1..(k - 1) : card[after[j]].rank > card[min].rank

\* The sort is about to scan three cards of which the first is not a
\* minimum and the other two are minima of one rank.
C15_Witness ==
    /\ dpc = "sort"
    /\ inserter = beforeHeadNode
    /\ Len(NodesAfter(Deck, inserter)) >= 3
    /\ findBeforeMin(Deck, inserter) = NodesAfter(Deck, inserter)[1]
    /\ card[NodesAfter(Deck, inserter)[2]].rank = card[NodesAfter(Deck, inserter)[3]].rank
    /\ card[NodesAfter(Deck, inserter)[2]].rank < card[NodesAfter(Deck, inserter)[1]].rank

\* C16: no assert fails during stableSelectionSort, whatever the deck, the
\* empty and the one-card deck included.  Whenever the loop's body is about
\* to run, inserter has a successor, findBeforeMin(inserter) returns a
\* position that is not end() and whose successor is not end() (so
\* extractAfter gets a node with a successor), and attachAfter gets a
\* non-null inserter and a non-null extracted node.
C16_NoAssertFails ==
    /\ ~failed
    /\ dpc = "sort" =>
          /\ inserter # Null
          /\ next[inserter] # end(Deck)
          /\ findBeforeMin(Deck, inserter) # end(Deck)
          /\ next[findBeforeMin(Deck, inserter)] # end(Deck)
          /\ findBeforeMin_asserts(Deck, findBeforeMin(Deck, inserter))
    /\ dpc = "extracted" =>
          /\ inserter # Null
          /\ extracted # Null

\* The sort of a one-card deck has returned.
C16_Witness ==
    /\ after_sort
    /\ dpc = "idle"
    /\ deckSize = 1
    /\ Len(sort_input) = 1
    /\ ~failed

\* The place of position p in the traversal: 0 for before-begin.
PlaceOf(d, p) ==
    IF p = beforeBegin(d) THEN 0
    ELSE CHOOSE k \in 1..Len(Chain(d)) : Chain(d)[k] = p

\* C17: stableSelectionSort terminates on every deck.  Called on an empty
\* deck it returns at once (no pass); otherwise the inserter starts at
\* place 0, every pass unlinks one node, relinks it right after the
\* inserter and moves the inserter one place on, and the loop ends exactly
\* when the inserter is at place size(): size() passes.  The chain a scan
\* of findBeforeMin follows ends at nullptr, and a sort that is running
\* returns.
C17_SortTerminates ==
    /\ [][/\ (dpc = "idle" /\ SortStep) =>
               /\ deckSize = 0 => (dpc' = "idle" /\ after_sort')
               /\ deckSize > 0 => (dpc' = "sort" /\ PlaceOf(Deck', inserter') = 0)
          /\ dpc = "sort" =>
               /\ EndsAtNull(Deck, inserter, Cardinality(DeckNodes))
               /\ dpc' = "extracted"
               /\ inserter' = inserter
               /\ Len(Chain(Deck')) = deckSize - 1
               /\ CountIn(Chain(Deck'), extracted') = 0
               /\ CountIn(Chain(Deck), extracted') = 1
          /\ dpc = "extracted" =>
               /\ Len(Chain(Deck')) = deckSize
               /\ next'[inserter] = extracted
               /\ PlaceOf(Deck', extracted) = PlaceOf(Deck, inserter) + 1
               /\ dpc' = "sort" =>
                     /\ inserter' = extracted
                     /\ PlaceOf(Deck', inserter') < deckSize
               /\ dpc' # "sort" =>
                     /\ dpc' = "idle" /\ after_sort'
                     /\ PlaceOf(Deck', extracted) = deckSize]_vars
    /\ (dpc \in {"sort", "extracted"}) ~> (dpc = "idle" /\ after_sort)

\* The sort of a full deck has made two passes and is in its third.
C17_Witness ==
    /\ dpc = "extracted"
    /\ deckSize >= 3
    /\ inserter # beforeHeadNode
    /\ PlaceOf(Deck, inserter) = 2
    /\ next[inserter] = Null
    /\ ~failed

\* C18: shuffle goes through the places i = 0 .. size() - 1 in order: the
\* iterator is at place minOffset, never past the last node, and a pass
\* swaps its card with the card at a place j, i <= j <= size() - 1.  No
\* pass changes a next pointer, the live nodes or size(), and every pass
\* keeps the multiset of the cards held by the nodes of the chain (each
\* node is in the chain once), so the result is a permutation of the
\* input.  The loop ends after the pass at the last place.  On an empty
\* deck the loop is not entered and nothing changes.
C18_ShuffleSwapsForward ==
    [][/\ (dpc = "idle" /\ dpc' = "shuffle") =>
             /\ UNCHANGED deckVars
             /\ deckSize > 0
             /\ minOffset' = 0
             /\ it' = Chain(Deck)[1]
       /\ (dpc = "idle" /\ dpc' = "idle" /\ deckSize = 0 /\ deckSize' = 0) =>
             UNCHANGED deckVars
       /\ dpc' = "shuffle" =>
             /\ minOffset' \in 0..(deckSize' - 1)
             /\ it' = Chain(Deck')[minOffset' + 1]
       /\ dpc = "shuffle" =>
             LET chain == Chain(Deck)
                 nodes == {chain[i] : i \in 1..Len(chain)}
             IN  /\ next' = next
                 /\ live' = live
                 /\ deckSize' = deckSize
                 /\ Chain(Deck') = chain
                 /\ Cardinality(nodes) = Len(chain)
                 /\ \E j \in minOffset..(deckSize - 1) :
                       card' = [card EXCEPT ![it] = card[chain[j + 1]],
                                            ![chain[j + 1]] = card[it]]
                 /\ \A c \in DeckCards :
                       Cardinality({n \in nodes : card'[n] = c})
                           = Cardinality({n \in nodes : card[n] = c})
                 /\ dpc' = "shuffle" => minOffset' = minOffset + 1
                 /\ dpc' # "shuffle" => (dpc' = "idle" /\ minOffset = deckSize - 1)]_vars

\* The shuffle of a deck of three cards is past its first pass, which
\* moved a card of another rank to the front.
C18_Witness ==
    /\ dpc = "shuffle"
    /\ minOffset >= 1
    /\ deckSize >= 3
    /\ it = Chain(Deck)[minOffset + 1]
    /\ \E i \in 2..deckSize : Cards(Deck)[i].rank # Cards(Deck)[1].rank
    /\ ~failed

\* The cards of the ranks top down to TWO, each rank in the suits spade,
\* heart, club, diamond.
RanksDownSuitsInOrder(top) ==
    [i \in 1..(4 * (top - TWO + 1)) |->
        Card(<<SPADE, HEART, CLUB, DIAMOND>>[((i - 1) % 4) + 1], top - ((i - 1) \div 4))]

Reverse(s) == [i \in 1..Len(s) |-> s[Len(s) + 1 - i]]

\* C19: generateStandardDeck makes its cards rank by rank from the top rank
\* down to two, each rank in the suits spade, heart, club, diamond, and its
\* loop ends after the rank two; the deck it returns holds every pair of a
\* suit and a rank exactly once and its size is four times the number of
\* ranks.  From ACE that is 13 ranks and 52 cards.  (pushFront puts each
\* card before the earlier ones: the traversal is the reverse of the order
\* of generation.)
C19_StandardDeckGenerated ==
    /\ test_pc = "generate" =>
          /\ gen_rank \in TWO..StdTopRank
          /\ Cards(Deck)
                = Reverse(SubSeq(RanksDownSuitsInOrder(StdTopRank), 1, deckSize))
    /\ test_pc = "shuffle" =>
          /\ gen_rank = TWO - 1
          /\ deckSize = 4 * StdRanks
          /\ Len(Chain(Deck)) = deckSize
          /\ Cards(Deck) = Reverse(RanksDownSuitsInOrder(StdTopRank))
          /\ \A s \in {SPADE, HEART, CLUB, DIAMOND}, r \in TWO..StdTopRank :
                CountIn(Cards(Deck), Card(s, r)) = 1
          /\ DeckIs(generateStandardDeck)
          /\ LET full == generated_cards(ACE)
             IN  /\ Len(full) = 52
                 /\ full = RanksDownSuitsInOrder(ACE)
                 /\ \A s \in {SPADE, HEART, CLUB, DIAMOND}, r \in TWO..ACE :
                       CountIn(full, Card(s, r)) = 1
                 /\ \A i \in 1..Len(full) :
                       full[i].suite \in {SPADE, HEART, CLUB, DIAMOND} /\ full[i].rank \in TWO..ACE

\* generateStandardDeck has returned: the card made last, the two of
\* diamonds, is the first of the deck.
C19_Witness ==
    /\ test_pc = "shuffle"
    /\ deckSize = StdSize
    /\ deckSize >= 4
    /\ Cards(Deck)[1] = Card(DIAMOND, TWO)
    /\ Cards(Deck)[deckSize] = Card(SPADE, StdTopRank)

=============================================================================
